---- MODULE Spec2Model ----
(***************************************************************************)
(* NervesHub User API client (nerves_hub_client/client.py).                *)
(*                                                                         *)
(* Python values are modelled as follows.                                  *)
(*   bytes              a sequence of integers 0..255                      *)
(*   str (credentials)  a sequence of code points                          *)
(*   str (names, URLs)  a TLA+ string, concatenated with \o                *)
(*   Optional[x]        <<>> for None, <<x>> for a value                   *)
(*   an object / a value whose Python type matters: a record with a type   *)
(*   tag t                                                                 *)
(* The PEM armour ("-----BEGIN X-----" ... "-----END X-----") is reduced   *)
(* to one '-' byte and one label byte in front of the body and one '-'     *)
(* byte behind it; what matters to the client is kept: PEM text holds '-', *)
(* which is outside the base64 alphabet, parsing accepts several texts of  *)
(* one object, and serialising writes one canonical text.                  *)
(***************************************************************************)
EXTENDS Naturals, Sequences, FiniteSets, TLC

VARIABLES phase, ctor, client, files, sent, calls, result

vars == <<phase, ctor, client, files, sent, calls, result>>

\* ------------------------------------------------------------------ bounds

\* Operation calls made on one client.
MaxCalls == 2

\* ------------------------------------------------------------ Optional[x]

None == <<>>
Some(x) == <<x>>
IsNone(o) == Len(o) = 0
Get(o) == o[1]

\* ------------------------------------------------------------------ bytes

Dash == <<45>>
Newline == <<10>>

\* The 64 characters of the standard alphabet, in order: A-Z a-z 0-9 + /
B64Alphabet ==
    [i \in 1..26 |-> 64 + i] \o [i \in 1..26 |-> 96 + i] \o
    [i \in 1..10 |-> 47 + i] \o <<43, 47>>

Equals == <<61>>

B64Pad == Equals[1]

B64Chars == {B64Alphabet[i] : i \in 1..64}

B64Index(c) == (CHOOSE i \in 1..64 : B64Alphabet[i] = c) - 1

B64Char(n) == B64Alphabet[n + 1]

\* base64.b64encode: three bytes to four characters, '=' padding at the end.
RECURSIVE b64encode(_)
b64encode(b) ==
    IF Len(b) = 0 THEN <<>>
    ELSE IF Len(b) = 1 THEN
        <<B64Char(b[1] \div 4), B64Char((b[1] % 4) * 16), B64Pad, B64Pad>>
    ELSE IF Len(b) = 2 THEN
        <<B64Char(b[1] \div 4),
          B64Char(((b[1] % 4) * 16) + (b[2] \div 16)),
          B64Char((b[2] % 16) * 4), B64Pad>>
    ELSE
        <<B64Char(b[1] \div 4),
          B64Char(((b[1] % 4) * 16) + (b[2] \div 16)),
          B64Char(((b[2] % 16) * 4) + (b[3] \div 64)),
          B64Char(b[3] % 64)>> \o b64encode(SubSeq(b, 4, Len(b)))

\* The number of '=' characters that end s (at most two are looked at).
B64PadCount(s) ==
    IF Len(s) >= 1 /\ s[Len(s)] = B64Pad
    THEN IF Len(s) >= 2 /\ s[Len(s) - 1] = B64Pad THEN 2 ELSE 1
    ELSE 0

\* base64.b64decode(s, validate=True) accepts s: only alphabet characters,
\* then at most two '=', and a length that is a multiple of four.
B64Valid(s) ==
    /\ Len(s) % 4 = 0
    /\ \A i \in 1..(Len(s) - B64PadCount(s)) : s[i] \in B64Chars

RECURSIVE B64DecodeGroups(_)
B64DecodeGroups(s) ==
    IF Len(s) = 0 THEN <<>>
    ELSE LET a == B64Index(s[1])
             b == B64Index(s[2])
             one == <<(a * 4) + (b \div 16)>>
         IN  IF s[3] = B64Pad THEN one
             ELSE LET c == B64Index(s[3])
                      two == one \o <<((b % 16) * 16) + (c \div 4)>>
                  IN  IF s[4] = B64Pad THEN two
                      ELSE two \o <<((c % 4) * 64) + B64Index(s[4])>>
                               \o B64DecodeGroups(SubSeq(s, 5, Len(s)))

\* base64.b64decode(s, validate=True): the bytes, or binascii.Error.
b64decode(s) ==
    IF B64Valid(s) THEN [error |-> FALSE, bytes |-> B64DecodeGroups(s)]
    ELSE [error |-> TRUE, bytes |-> <<>>]

\* bytes(val, "utf-8"): one byte below 128, two bytes below 2048.
RECURSIVE Utf8(_)
Utf8(s) ==
    IF Len(s) = 0 THEN <<>>
    ELSE (IF s[1] < 128 THEN <<s[1]>>
          ELSE <<192 + (s[1] \div 64), 128 + (s[1] % 64)>>) \o Utf8(Tail(s))

\* -------------------------------------------------------------------- PEM

LabelCertificate == <<67>>
LabelPkcs8Key == <<75>>
LabelRsaKey == <<82>>

RECURSIVE StripNewlines(_)
StripNewlines(b) ==
    IF Len(b) > 0 /\ b[Len(b)] = Newline[1]
    THEN StripNewlines(SubSeq(b, 1, Len(b) - 1))
    ELSE b

\* A PEM block with one of the labels: '-' label body '-', newlines after it.
PemValid(b, labels) ==
    LET t == StripNewlines(b)
    IN  /\ Len(t) >= 4
        /\ t[1] = Dash[1]
        /\ <<t[2]>> \in labels
        /\ t[Len(t)] = Dash[1]
        /\ \A i \in 3..(Len(t) - 1) : t[i] \in B64Chars

PemBody(b) == LET t == StripNewlines(b) IN SubSeq(t, 3, Len(t) - 1)

NoObject == [t |-> "None", der |-> <<>>]

\* cryptography's load_pem_x509_certificate(data): the object, or ValueError.
load_pem_x509_certificate(data) ==
    IF PemValid(data, {LabelCertificate})
    THEN [error |-> FALSE, obj |-> [t |-> "Certificate", der |-> PemBody(data)]]
    ELSE [error |-> TRUE, obj |-> NoObject]

\* cryptography's load_pem_private_key(data, None): PKCS8 or traditional PEM.
load_pem_private_key(data) ==
    IF PemValid(data, {LabelPkcs8Key, LabelRsaKey})
    THEN [error |-> FALSE, obj |-> [t |-> "PrivateKey", der |-> PemBody(data)]]
    ELSE [error |-> TRUE, obj |-> NoObject]

\* cert.public_bytes(Encoding.PEM): the canonical text of the certificate.
public_bytes(cert) == Dash \o LabelCertificate \o cert.der \o Dash \o Newline

\* key.private_bytes(PEM, PKCS8, NoEncryption()): always the PKCS8 text.
private_bytes(key) == Dash \o LabelPkcs8Key \o key.der \o Dash \o Newline

\* ----------------------------------------------------------- construction

NERVES_HUB_BASE_URL_DEFAULT == "https://api.nerves-hub.org"

\* The bundled resource nerveshub_ca_certs.pem, read as bytes.
DefaultCaBundle == Dash \o LabelCertificate \o <<78, 72>> \o Dash \o Newline

NoValue == [t |-> "None", v |-> <<>>]
Bytes(b) == [t |-> "bytes", v |-> b]
Str(s) == [t |-> "str", v |-> s]

\* NamedTemporaryFile(): the n-th file created gets a name of its own.
TempName(n) == <<"/tmp/tmp1", "/tmp/tmp2", "/tmp/tmp3">>[n]

NoFiles == [p \in {} |-> <<>>]

NoClient ==
    [organization |-> "", product |-> "", base_url |-> "",
     cert_paths |-> <<"", "">>, ca_cert_path |-> ""]

\* _init_cert: the certificate and the key, serialised, each in a temporary
\* file. An argument without public_bytes / private_bytes: AttributeError.
init_cert(cert, key) ==
    IF cert.t # "Certificate" \/ key.t # "PrivateKey"
    THEN [exc |-> "AttributeError", paths |-> <<"", "">>, files |-> NoFiles]
    ELSE [exc |-> "ok",
          paths |-> <<TempName(1), TempName(2)>>,
          files |-> (TempName(1) :> public_bytes(cert))
                    @@ (TempName(2) :> private_bytes(key))]

\* _init_ca_cert: the CA certificate in a temporary file. The file is opened
\* in binary mode: write() of a str raises TypeError.
init_ca_cert(ca_cert) ==
    IF ca_cert.t # "bytes"
    THEN [exc |-> "TypeError", path |-> "", files |-> NoFiles]
    ELSE [exc |-> "ok", path |-> TempName(3),
          files |-> (TempName(3) :> ca_cert.v)]

\* __init__. A construction that raises leaves no instance, and its
\* temporary files go with it.
init(args) ==
    LET c == init_cert(args.cert, args.key)
        base_url == IF IsNone(args.base_url) THEN NERVES_HUB_BASE_URL_DEFAULT
                    ELSE Get(args.base_url)
        ca_cert == IF args.ca_cert.t = "None" THEN Bytes(DefaultCaBundle)
                   ELSE args.ca_cert
        ca == init_ca_cert(ca_cert)
    IN  IF c.exc # "ok" THEN [exc |-> c.exc, self |-> NoClient, files |-> NoFiles]
        ELSE IF ca.exc # "ok"
        THEN [exc |-> ca.exc, self |-> NoClient, files |-> NoFiles]
        ELSE [exc |-> "ok",
              self |-> [organization |-> args.organization,
                        product |-> args.product,
                        base_url |-> base_url,
                        cert_paths |-> c.paths,
                        ca_cert_path |-> ca.path],
              files |-> c.files @@ ca.files]

\* _get_env_b64 (the variable is set): the value strictly base64-decoded, or
\* the value itself when it is not base64.
get_env_b64_literal(env, key) == Utf8(Get(env[key]))

get_env_b64(env, key) ==
    LET val == Utf8(Get(env[key]))
        decoded == b64decode(val)
    IN  IF decoded.error THEN val ELSE decoded.bytes

NoArgs ==
    [organization |-> "", product |-> "", cert |-> NoObject, key |-> NoObject,
     base_url |-> None, ca_cert |-> NoValue]

\* from_env, up to its call of the constructor: the arguments, or the
\* exception of a missing variable (KeyError) or of malformed PEM (ValueError).
from_env_args(env) ==
    LET failed(e) == [exc |-> e, args |-> NoArgs]
    IN  IF IsNone(env["NERVES_HUB_ORG"]) \/ IsNone(env["NERVES_HUB_PRODUCT"])
          \/ IsNone(env["NERVES_HUB_CERT"])
        THEN failed("KeyError")
        ELSE LET cert == load_pem_x509_certificate(get_env_b64(env, "NERVES_HUB_CERT"))
             IN  IF cert.error THEN failed("ValueError")
                 ELSE IF IsNone(env["NERVES_HUB_KEY"]) THEN failed("KeyError")
                 ELSE LET key == load_pem_private_key(get_env_b64(env, "NERVES_HUB_KEY"))
                      IN  IF key.error THEN failed("ValueError")
                          ELSE [exc |-> "ok",
                                args |-> [organization |-> Get(env["NERVES_HUB_ORG"]),
                                          product |-> Get(env["NERVES_HUB_PRODUCT"]),
                                          cert |-> cert.obj,
                                          key |-> key.obj,
                                          base_url |-> env["NERVES_HUB_BASE_URL"],
                                          ca_cert |-> IF IsNone(env["NERVES_HUB_CA_CERT"])
                                                      THEN NoValue
                                                      ELSE Str(Get(env["NERVES_HUB_CA_CERT"]))]]

\* from_env refusing an environment that holds a token beside the
\* certificate and key, which the client does not do.
from_env_exclusive(env) ==
    LET a == from_env_args(env)
    IN  IF a.exc # "ok" THEN [exc |-> a.exc, self |-> NoClient, files |-> NoFiles]
        ELSE IF ~IsNone(env["NERVES_HUB_TOKEN"])
        THEN [exc |-> "ValueError", self |-> NoClient, files |-> NoFiles]
        ELSE init(a.args)

\* from_env: what the caller gets.
from_env(env) ==
    LET a == from_env_args(env)
    IN  IF a.exc # "ok" THEN [exc |-> a.exc, self |-> NoClient, files |-> NoFiles]
        ELSE init(a.args)

\* --------------------------------------------------------------- requests

\* One call of requests.get / requests.post / requests.delete.
Request(method, u, data, kwargs) ==
    [method |-> method, url |-> u, data |-> data,
     cert |-> kwargs.cert, verify |-> kwargs.verify]

\* What a call of requests gives: a response, or an exception of the
\* transport (no connection, a failed TLS handshake).
TransportFailure == [error |-> TRUE, status_code |-> 0, json |-> None]

Statuses == {102, 200, 204, 304, 422}

\* The decoded JSON body of a response; None when the body is not JSON.
Bodies == {None, Some("{data}")}

Responses ==
    {TransportFailure} \cup
    {[error |-> FALSE, status_code |-> st, json |-> b] : st \in Statuses, b \in Bodies}

NoOutcome ==
    [kind |-> "none", exc |-> "", status_code |-> 0, value |-> None, flag |-> FALSE]

Raise(exc, status_code) ==
    [kind |-> "raise", exc |-> exc, status_code |-> status_code,
     value |-> None, flag |-> FALSE]

Return(value, flag) ==
    [kind |-> "return", exc |-> "", status_code |-> 0, value |-> value, flag |-> flag]

\* _url
url(self, path) == self.base_url \o path

\* _common_kwargs with the certificate file given as the CA file.
common_kwargs_wrong_ca(self) ==
    [cert |-> self.cert_paths, verify |-> self.cert_paths[1]]

\* _common_kwargs
common_kwargs(self) == [cert |-> self.cert_paths, verify |-> self.ca_cert_path]

\* requests' Response.raise_for_status: HTTPError for 400..599, and for
\* nothing else.
HTTPError(resp) == 400 <= resp.status_code /\ resp.status_code < 600

\* _raise_for_stats: the exception raised, if any.
raise_for_stats(resp) ==
    IF HTTPError(resp) THEN Some(Raise("NervesHubAPIError", resp.status_code))
    ELSE None

\* The part _get, _post and _delete share after the request: an exception of
\* the transport goes through, then _raise_for_stats, then the response.
Answer(req, resp) ==
    [sent |-> <<req>>,
     raised |-> IF resp.error THEN Some(Raise("ConnectionError", 0))
                ELSE raise_for_stats(resp),
     resp |-> resp]

\* _get with a retry after a failure, which the client does not have.
get_retrying(self, path, resp) ==
    LET req == Request("GET", url(self, path), None, common_kwargs(self))
        a == Answer(req, resp)
    IN  IF IsNone(a.raised) THEN a ELSE [a EXCEPT !.sent = <<req, req>>]

\* _get
get(self, path, resp) ==
    Answer(Request("GET", url(self, path), None, common_kwargs(self)), resp)

\* _post
post(self, path, data, resp) ==
    Answer(Request("POST", url(self, path), Some(data), common_kwargs(self)), resp)

\* _delete
delete(self, path, resp) ==
    Answer(Request("DELETE", url(self, path), None, common_kwargs(self)), resp)

\* _device_path with the identifier always appended.
device_path_always(self, identifier) ==
    "/orgs/" \o self.organization \o "/products/" \o self.product \o "/devices"
    \o "/" \o (IF IsNone(identifier) THEN "None" ELSE Get(identifier))

\* _device_path
device_path(self, identifier) ==
    LET path == "/orgs/" \o self.organization \o "/products/" \o self.product
                \o "/devices"
    IN  IF IsNone(identifier) THEN path ELSE path \o "/" \o Get(identifier)

\* _device_cert_path
device_cert_path(self, identifier) ==
    device_path(self, Some(identifier)) \o "/certificates"

\* resp.json() of the response that came back, or what was raised before.
JsonOf(a) ==
    IF ~IsNone(a.raised) THEN Get(a.raised)
    ELSE IF IsNone(a.resp.json) THEN Raise("JSONDecodeError", 0)
    ELSE Return(a.resp.json, FALSE)

\* str.join
RECURSIVE Join(_, _)
Join(sep, list) ==
    IF Len(list) = 0 THEN ""
    ELSE IF Len(list) = 1 THEN list[1]
    ELSE list[1] \o sep \o Join(sep, Tail(list))

\* The tags of device_create joined without the comma.
tag_str_unseparated(tags) == IF IsNone(tags) THEN "" ELSE Join("", Get(tags))

\* device_create's tag_str
tag_str(tags) == IF IsNone(tags) THEN "" ELSE Join(",", Get(tags))

\* device_list
device_list(self, resp) ==
    LET a == get(self, device_path(self, None), resp)
    IN  [sent |-> a.sent, outcome |-> JsonOf(a)]

\* device_create
device_create(self, identifier, description, tags, resp) ==
    LET data == [identifier |-> identifier, description |-> description,
                 tags |-> tag_str(tags)]
        a == post(self, device_path(self, None), data, resp)
    IN  [sent |-> a.sent, outcome |-> JsonOf(a)]

\* device_cert_create
device_cert_create(self, identifier, cert, resp) ==
    LET data == [identifier |-> identifier, cert |-> b64encode(cert)]
        a == post(self, device_cert_path(self, identifier), data, resp)
    IN  [sent |-> a.sent, outcome |-> JsonOf(a)]

\* device_cert_list
device_cert_list(self, identifier, resp) ==
    LET a == get(self, device_cert_path(self, identifier), resp)
    IN  [sent |-> a.sent, outcome |-> JsonOf(a)]

\* device_delete
device_delete(self, identifier, resp) ==
    LET a == delete(self, device_path(self, Some(identifier)), resp)
    IN  [sent |-> a.sent,
         outcome |-> IF ~IsNone(a.raised) THEN Get(a.raised)
                     ELSE Return(None, a.resp.status_code = 204)]

\* ----------------------------------------------------------------- inputs

CertPem == Dash \o LabelCertificate \o <<77, 73>> \o Dash \o Newline
CertPemBare == Dash \o LabelCertificate \o <<77, 73>> \o Dash
KeyPkcs8Pem == Dash \o LabelPkcs8Key \o <<69, 118>> \o Dash \o Newline
KeyRsaPem == Dash \o LabelRsaKey \o <<69, 118>> \o Dash \o Newline
CaPem == Dash \o LabelCertificate \o <<81, 65>> \o Dash \o Newline
\* Neither PEM nor base64 ("h" and a letter outside ASCII), and base64 of
\* bytes that are not PEM ("AAAA").
NotPem == <<104, 233>>
B64NotPem == <<65, 65, 65, 65>>

CertPems == {CertPem, CertPemBare}
KeyPems == {KeyPkcs8Pem, KeyRsaPem}

\* An environment value holding a PEM text as it is, or its base64 encoding.
RawOrB64(pems) == pems \cup {b64encode(p) : p \in pems}

SelfHostedUrl == "https://api.example.org"

Envs ==
    [NERVES_HUB_ORG : {None, Some("acme")},
     NERVES_HUB_PRODUCT : {None, Some("widget")},
     NERVES_HUB_CERT : {None} \cup {Some(v) : v \in RawOrB64(CertPems) \cup {NotPem, B64NotPem}},
     NERVES_HUB_KEY : {None} \cup {Some(v) : v \in RawOrB64(KeyPems) \cup {NotPem}},
     NERVES_HUB_BASE_URL : {None, Some(NERVES_HUB_BASE_URL_DEFAULT), Some(SelfHostedUrl)},
     NERVES_HUB_CA_CERT : {None} \cup {Some(v) : v \in RawOrB64({CaPem})},
     NERVES_HUB_TOKEN : {None, Some("token")}]

NoEnv ==
    [NERVES_HUB_ORG |-> None, NERVES_HUB_PRODUCT |-> None, NERVES_HUB_CERT |-> None,
     NERVES_HUB_KEY |-> None, NERVES_HUB_BASE_URL |-> None,
     NERVES_HUB_CA_CERT |-> None, NERVES_HUB_TOKEN |-> None]

CertObject == [t |-> "Certificate", der |-> <<77, 73>>]
KeyObject == [t |-> "PrivateKey", der |-> <<69, 118>>]

\* The arguments of a direct call of the constructor.
DirectArgs ==
    [organization : {"acme", "org-2"},
     product : {"widget"},
     cert : {CertObject, NoObject},
     key : {KeyObject},
     base_url : {None, Some(SelfHostedUrl)},
     ca_cert : {NoValue, Bytes(CaPem)}]

Identifiers == {"d1", "d-2"}

\* device_create(identifier, description, tags)
CreateArgs ==
    {<<"d1", None, None>>,
     <<"d1", Some("spare"), Some(<<>>)>>,
     <<"d-2", None, Some(<<"red">>)>>,
     <<"d-2", Some("spare"), Some(<<"red", "blue">>)>>,
     <<"d1", None, Some(<<"blue", "red", "blue">>)>>}

\* device_cert_create(identifier, cert)
CertCreateArgs == {<<"d1", <<109, 121>>>>, <<"d-2", CertPem>>}

\* ---------------------------------------------------------- state machine

Init ==
    /\ phase = "none"
    /\ ctor = [via |-> "none", env |-> NoEnv, args |-> NoArgs, exc |-> ""]
    /\ client = NoClient
    /\ files = NoFiles
    /\ sent = <<>>
    /\ calls = <<>>
    /\ result = [resp |-> TransportFailure, outcome |-> NoOutcome]

Constructed(via, env, args, c) ==
    /\ phase' = IF c.exc = "ok" THEN "alive" ELSE "failed"
    /\ ctor' = [via |-> via, env |-> env, args |-> args, exc |-> c.exc]
    /\ client' = c.self
    /\ files' = c.files
    /\ UNCHANGED <<sent, calls, result>>

\* NervesHubAPI(organization, product, cert, key, base_url, ca_cert)
Construct ==
    /\ phase = "none"
    /\ \E args \in DirectArgs : Constructed("init", NoEnv, args, init(args))

\* NervesHubAPI.from_env()
FromEnv ==
    /\ phase = "none"
    /\ \E env \in Envs :
          Constructed("from_env", env, from_env_args(env).args, from_env(env))

Called(op, identifier, tags, resp, r) ==
    /\ sent' = sent \o r.sent
    /\ calls' = Append(calls, [op |-> op, identifier |-> identifier, tags |-> tags])
    /\ result' = [resp |-> resp, outcome |-> r.outcome]
    /\ UNCHANGED <<phase, ctor, client, files>>

CanCall == phase = "alive" /\ Len(calls) < MaxCalls

DeviceList ==
    /\ CanCall
    /\ \E resp \in Responses :
          Called("device_list", None, None, resp, device_list(client, resp))

DeviceCreate ==
    /\ CanCall
    /\ \E a \in CreateArgs, resp \in Responses :
          Called("device_create", Some(a[1]), a[3], resp,
                 device_create(client, a[1], a[2], a[3], resp))

DeviceCertCreate ==
    /\ CanCall
    /\ \E a \in CertCreateArgs, resp \in Responses :
          Called("device_cert_create", Some(a[1]), None, resp,
                 device_cert_create(client, a[1], a[2], resp))

DeviceCertList ==
    /\ CanCall
    /\ \E identifier \in Identifiers, resp \in Responses :
          Called("device_cert_list", Some(identifier), None, resp,
                 device_cert_list(client, identifier, resp))

DeviceDelete ==
    /\ CanCall
    /\ \E identifier \in Identifiers, resp \in Responses :
          Called("device_delete", Some(identifier), None, resp,
                 device_delete(client, identifier, resp))

\* The files of a client that is dropped: every NamedTemporaryFile it holds
\* is closed with it, and closing deletes the file.
closed(fs, self) ==
    [p \in DOMAIN fs \ {self.cert_paths[1], self.cert_paths[2], self.ca_cert_path}
        |-> fs[p]]

\* The client goes out of use.
Teardown ==
    /\ phase = "alive"
    /\ phase' = "closed"
    /\ files' = closed(files, client)
    /\ UNCHANGED <<ctor, client, sent, calls, result>>

Next ==
    \/ Construct
    \/ DeviceList
    \/ DeviceCreate
    \/ DeviceCertCreate
    \/ DeviceCertList
    \/ DeviceDelete
    \/ Teardown

\* A client built by the constructor, its operations, its end.
Spec == Init /\ [][Next]_vars

NextEnv ==
    \/ FromEnv
    \/ DeviceList
    \/ Teardown

\* A client built from the environment.
SpecEnv == Init /\ [][NextEnv]_vars

\* ----------------------------------------------------------------- claims

Success(st) == 200 <= st /\ st < 300

HasCall == Len(calls) > 0

LastCall == calls[Len(calls)]

Answered == HasCall /\ ~result.resp.error

RaisedApiError(st) ==
    /\ result.outcome.kind = "raise"
    /\ result.outcome.exc = "NervesHubAPIError"
    /\ result.outcome.status_code = st

\* C1: whatever the operation, a response whose status is outside 200..299
\* (1xx and 3xx included) makes it raise NervesHubAPIError carrying exactly
\* that status; it does not return.
C1_NonSuccessRaisesApiError ==
    (Answered /\ ~Success(result.resp.status_code))
        => RaisedApiError(result.resp.status_code)

SelfHostedWithoutCa ==
    \/ /\ ctor.via = "init"
       /\ ctor.args.base_url \notin {None, Some(NERVES_HUB_BASE_URL_DEFAULT)}
       /\ ctor.args.ca_cert.t = "None"
    \/ /\ ctor.via = "from_env"
       /\ ctor.env["NERVES_HUB_BASE_URL"] \notin {None, Some(NERVES_HUB_BASE_URL_DEFAULT)}
       /\ IsNone(ctor.env["NERVES_HUB_CA_CERT"])

\* C2: a construction with a base URL other than the default and without a
\* CA certificate fails: there is no client, and no request is sent.
C2_SelfHostedWithoutCaFails ==
    SelfHostedWithoutCa => (phase = "failed" /\ client = NoClient /\ sent = <<>>)

CertKeyMode(env) == ~IsNone(env["NERVES_HUB_CERT"]) /\ ~IsNone(env["NERVES_HUB_KEY"])

TokenMode(env) == ~IsNone(env["NERVES_HUB_TOKEN"])

\* An environment in which nothing but the credential decides the outcome.
PlainEnv(env) ==
    /\ ~IsNone(env["NERVES_HUB_ORG"])
    /\ ~IsNone(env["NERVES_HUB_PRODUCT"])
    /\ IsNone(env["NERVES_HUB_BASE_URL"])
    /\ IsNone(env["NERVES_HUB_CA_CERT"])

\* C3, as stated: from_env builds a client only when exactly one credential
\* mode (certificate and key, or bearer token) is supplied, and a bearer
\* token alone is enough to build one.
C3_ExactlyOneCredentialMode ==
    ctor.via = "from_env" =>
        /\ ctor.exc = "ok" => (CertKeyMode(ctor.env) # TokenMode(ctor.env))
        /\ (/\ PlainEnv(ctor.env)
            /\ TokenMode(ctor.env)
            /\ IsNone(ctor.env["NERVES_HUB_CERT"])
            /\ IsNone(ctor.env["NERVES_HUB_KEY"])) => ctor.exc = "ok"

WithoutToken(env) == [env EXCEPT !["NERVES_HUB_TOKEN"] = None]

\* C3, amended: the certificate and key are the one credential mode. from_env
\* builds a client only when NERVES_HUB_CERT and NERVES_HUB_KEY are both set,
\* NERVES_HUB_TOKEN changes nothing (the outcome is that of the environment
\* without it), and every request is made with the staged certificate and
\* key paths.
C3_CertificateAndKeyOnly ==
    ctor.via = "from_env" =>
        /\ ctor.exc = "ok" => CertKeyMode(ctor.env)
        /\ LET r == from_env(WithoutToken(ctor.env))
           IN  /\ ctor.exc = r.exc
               /\ client = r.self
               /\ phase = "alive" => files = r.files
        /\ \A i \in 1..Len(sent) : sent[i].cert = client.cert_paths

C3_Witness ==
    /\ ctor.via = "from_env"
    /\ phase = "alive"
    /\ CertKeyMode(ctor.env) /\ TokenMode(ctor.env)
    /\ Len(sent) > 0

\* C4: device_delete returns true exactly for status 204; it returns false
\* for every other 2xx status and raises NervesHubAPIError for every status
\* outside 200..299.
C4_DeleteTrueIff204 ==
    (Answered /\ LastCall.op = "device_delete") =>
        LET st == result.resp.status_code
        IN  IF st = 204 THEN result.outcome = Return(None, TRUE)
            ELSE IF Success(st) THEN result.outcome = Return(None, FALSE)
            ELSE RaisedApiError(st)

\* The environment with each base64-encoded PEM credential replaced by the
\* PEM text it encodes.
RawCredential(v, pems) ==
    IF \E p \in pems : v = Some(b64encode(p))
    THEN Some(CHOOSE p \in pems : v = Some(b64encode(p)))
    ELSE v

RawEnv(env) ==
    [env EXCEPT !["NERVES_HUB_CERT"] = RawCredential(@, CertPems),
                !["NERVES_HUB_KEY"] = RawCredential(@, KeyPems)]

\* C5: with NERVES_HUB_CERT / NERVES_HUB_KEY holding the base64 encoding of a
\* PEM text, from_env ends as it does with the PEM text itself, and stages
\* the same certificate and key bytes.
C5_Base64AndRawPemStageSameBytes ==
    (ctor.via = "from_env" /\ RawEnv(ctor.env) # ctor.env) =>
        LET r == from_env(RawEnv(ctor.env))
        IN  /\ ctor.exc = r.exc
            /\ phase = "alive" =>
                  /\ files[client.cert_paths[1]] = r.files[r.self.cert_paths[1]]
                  /\ files[client.cert_paths[2]] = r.files[r.self.cert_paths[2]]

C5_Witness ==
    /\ ctor.via = "from_env"
    /\ phase = "alive"
    /\ ctor.env["NERVES_HUB_CERT"] = Some(b64encode(CertPemBare))
    /\ ctor.env["NERVES_HUB_KEY"] = Some(b64encode(KeyRsaPem))
    /\ files[client.cert_paths[1]] = CertPem
    /\ files[client.cert_paths[2]] = KeyPkcs8Pem

\* C6: with NERVES_HUB_CA_CERT set, to the PEM text or to its base64
\* encoding, and the other variables in order, from_env builds a client whose
\* staged CA file holds the PEM bytes.
C6_CaCertFromEnvIsStaged ==
    (/\ ctor.via = "from_env"
     /\ from_env_args(ctor.env).exc = "ok"
     /\ ctor.env["NERVES_HUB_CA_CERT"] \in {Some(v) : v \in RawOrB64({CaPem})})
        => /\ ctor.exc = "ok"
           /\ phase = "alive" => files[client.ca_cert_path] = CaPem

\* The strings of a list with a comma between neighbours, built from the left.
RECURSIVE CommaSeparated(_)
CommaSeparated(l) ==
    IF Len(l) = 0 THEN ""
    ELSE IF Len(l) = 1 THEN l[1]
    ELSE CommaSeparated(SubSeq(l, 1, Len(l) - 1)) \o "," \o l[Len(l)]

\* C7: the body of every device_create request has a tags field, the empty
\* string for tags=None and the tags in their order with commas between them
\* otherwise, and its identifier field is the identifier given.
C7_CreateBodyTags ==
    \A i \in 1..Len(calls) :
        calls[i].op = "device_create" =>
            /\ i <= Len(sent)
            /\ sent[i].method = "POST"
            /\ ~IsNone(sent[i].data)
            /\ "tags" \in DOMAIN Get(sent[i].data)
            /\ Get(sent[i].data).tags =
                  (IF IsNone(calls[i].tags) THEN ""
                   ELSE CommaSeparated(Get(calls[i].tags)))
            /\ Get(sent[i].data).identifier = Get(calls[i].identifier)

C7_Witness ==
    /\ Len(calls) = 2 /\ Len(sent) = 2
    /\ calls[1].op = "device_create" /\ IsNone(calls[1].tags)
    /\ Get(sent[1].data).tags = ""
    /\ calls[2].op = "device_create"
    /\ calls[2].tags = Some(<<"blue", "red", "blue">>)
    /\ Get(sent[2].data).tags = "blue,red,blue"

\* The path of a call, written out from the arguments of the constructor.
ExpectedPath(c) ==
    "/orgs/" \o ctor.args.organization \o "/products/" \o ctor.args.product
    \o "/devices"
    \o (IF c.op \in {"device_list", "device_create"} THEN ""
        ELSE "/" \o Get(c.identifier))
    \o (IF c.op \in {"device_cert_create", "device_cert_list"}
        THEN "/certificates" ELSE "")

ExpectedBaseUrl ==
    IF IsNone(ctor.args.base_url) THEN "https://api.nerves-hub.org"
    ELSE Get(ctor.args.base_url)

\* C8: the device path is /orgs/{org}/products/{product}/devices, followed by
\* /{identifier} only for a call about one device and then by /certificates
\* for its certificates, and every request goes to the base URL followed by
\* that path.
C8_RequestUrls ==
    \A i \in 1..Len(calls) :
        /\ i <= Len(sent)
        /\ sent[i].url = ExpectedBaseUrl \o ExpectedPath(calls[i])

C8_Witness ==
    /\ Len(calls) = 2 /\ Len(sent) = 2
    /\ calls[1].op = "device_list"
    /\ sent[1].url = "https://api.example.org/orgs/org-2/products/widget/devices"
    /\ calls[2].op = "device_cert_list"
    /\ sent[2].url =
          "https://api.example.org/orgs/org-2/products/widget/devices/d-2/certificates"

MethodOf(op) ==
    IF op \in {"device_list", "device_cert_list"} THEN "GET"
    ELSE IF op = "device_delete" THEN "DELETE"
    ELSE "POST"

\* C9: after n calls of operations exactly n requests were sent, the i-th by
\* the i-th call, whether the calls returned or raised; the construction
\* sends none.
C9_OneRequestPerCall ==
    /\ Len(sent) = Len(calls)
    /\ \A i \in 1..Len(sent) : sent[i].method = MethodOf(calls[i].op)

C9_Witness ==
    /\ Len(calls) = 2 /\ Len(sent) = 2
    /\ calls[1].op = "device_delete" /\ calls[2].op = "device_create"
    /\ result.outcome.kind = "raise"
    /\ result.outcome.exc \in {"NervesHubAPIError", "ConnectionError"}

\* The three files hold what the constructor was given: the certificate and
\* the key serialised, the CA certificate (the bundled one by default).
Staged ==
    /\ {client.cert_paths[1], client.cert_paths[2], client.ca_cert_path}
          \subseteq DOMAIN files
    /\ files[client.cert_paths[1]] = public_bytes(ctor.args.cert)
    /\ files[client.cert_paths[2]] = private_bytes(ctor.args.key)
    /\ files[client.ca_cert_path] =
          (IF ctor.args.ca_cert.t = "None" THEN DefaultCaBundle
           ELSE ctor.args.ca_cert.v)

\* C10: while the client lives its three files exist with the contents they
\* were given, no operation (one that raises included) changes the client,
\* and every request is made with the client's certificate, key and CA paths;
\* when the client goes the files are deleted.
C10_StagedFilesLiveWithTheClient ==
    [][/\ phase' = "alive" =>
            /\ Staged'
            /\ phase = "alive" => (client' = client /\ files' = files)
            /\ \A i \in 1..Len(sent') :
                  /\ sent'[i].cert = client'.cert_paths
                  /\ sent'[i].verify = client'.ca_cert_path
       /\ (phase = "alive" /\ phase' = "closed") =>
            /\ client' = client
            /\ DOMAIN files' \cap {client.cert_paths[1], client.cert_paths[2],
                                   client.ca_cert_path} = {}]_vars

C10_Witness ==
    /\ phase = "closed"
    /\ Len(sent) = 2
    /\ result.outcome.kind = "raise"
    /\ ctor.args.ca_cert = Bytes(CaPem)
    /\ DOMAIN files = {}

====
